---- MODULE Spec2Model ----
(***************************************************************************)
(* Model of OpenTsdbRawEncoder (externals/opentsdb/opentsdb_raw_encoder.go) *)
(* the line formatter and the per-series dedupe buffer of Encode.          *)
(*                                                                         *)
(* Text is a sequence of one-character strings, so that Split, SplitN,     *)
(* HasPrefix, TrimLeft and ToLower are computed character by character.    *)
(* A field value is a record [t, n, s]: t is the dynamic Go type, n the    *)
(* number of an int64 or float64 and s the text of a string; two values    *)
(* are == in Go exactly when the records are equal.                        *)
(***************************************************************************)
EXTENDS Integers, Sequences, FiniteSets, TLC

VARIABLES
    config,        \* oe.config, as Init left it
    hostname,      \* oe.hostname
    dedupeBuffer,  \* oe.dedupeBuffer: series key -> dedupe entry
    pack,          \* the record of the latest Encode call
    timestamp,     \* timestamp.UnixNano() of the latest Encode call
    dedupeBefore,  \* oe.dedupeBuffer as the latest Encode call found it
    output,        \* the bytes the latest Encode call returned (<<>> is nil)
    err,           \* the error the latest Encode call returned
    calls,         \* Encode calls made so far
    lastEmitted    \* series key -> UnixNano of its latest record returned as output

vars == <<config, hostname, dedupeBuffer, pack, timestamp, dedupeBefore, output, err, calls,
         lastEmitted>>

\* ---------------------------------------------------------------- bounds

\* Encode calls made on one encoder instance.
MaxCalls == 3

\* Encode calls made on one instance in the formatter specification.
MaxFmtCalls == 1

\* ------------------------------------------------------------- constants

\* The 1e9 of DedupeFlush*1e9, and of time.Unix(0, ns).Unix().
NanosPerSecond == 1000000000

\* ------------------------------------------------------------------ text

Min(S) == CHOOSE x \in S : \A y \in S : x <= y

\* strings.Index, 1-based; 0 when sep does not occur in s.
Index(s, sep) ==
    LET P == {i \in 1..(Len(s) - Len(sep) + 1) : SubSeq(s, i, i + Len(sep) - 1) = sep}
    IN IF P = {} THEN 0 ELSE Min(P)

\* strings.Split(s, sep) for a non-empty sep (the only use, line 91, is
\* guarded by TagNamePrefix != "").
RECURSIVE Split(_, _)
Split(s, sep) ==
    LET i == Index(s, sep)
    IN IF i = 0 THEN <<s>>
       ELSE <<SubSeq(s, 1, i - 1)>> \o Split(SubSeq(s, i + Len(sep), Len(s)), sep)

\* strings.SplitN(s, sep, 2): cut at the first sep; an empty sep explodes
\* s into its first character and the rest.
SplitN2(s, sep) ==
    IF sep = <<>>
    THEN IF Len(s) = 0 THEN <<>>
         ELSE IF Len(s) = 1 THEN <<s>>
         ELSE <<SubSeq(s, 1, 1), SubSeq(s, 2, Len(s))>>
    ELSE LET i == Index(s, sep)
         IN IF i = 0 THEN <<s>>
            ELSE <<SubSeq(s, 1, i - 1), SubSeq(s, i + Len(sep), Len(s))>>

\* strings.HasPrefix
HasPrefix(s, prefix) ==
    Len(s) >= Len(prefix) /\ SubSeq(s, 1, Len(prefix)) = prefix

\* strings.TrimLeft(s, cutset): drop the leading characters that are in cutset.
RECURSIVE TrimLeft(_, _)
TrimLeft(s, cutset) ==
    IF s # <<>> /\ \E i \in 1..Len(cutset) : cutset[i] = s[1]
    THEN TrimLeft(Tail(s), cutset)
    ELSE s

Upper == <<"A","B","C","D","E","F","G","H","I","J","K","L","M",
           "N","O","P","Q","R","S","T","U","V","W","X","Y","Z">>
Lower == <<"a","b","c","d","e","f","g","h","i","j","k","l","m",
           "n","o","p","q","r","s","t","u","v","w","x","y","z">>

LowerChar(c) ==
    IF \E i \in 1..Len(Upper) : Upper[i] = c
    THEN Lower[CHOOSE i \in 1..Len(Upper) : Upper[i] = c]
    ELSE c

\* strings.ToLower
ToLower(s) == [i \in 1..Len(s) |-> LowerChar(s[i])]

Digits == <<"0","1","2","3","4","5","6","7","8","9">>

\* fmt.Sprint of an int64
RECURSIVE Itoa(_)
Itoa(n) ==
    IF n < 0 THEN <<"-">> \o Itoa(-n)
    ELSE IF n < 10 THEN <<Digits[n + 1]>>
    ELSE Itoa(n \div 10) \o <<Digits[(n % 10) + 1]>>

\* fmt.Sprint(v), and %v: a string prints as itself, an int64 in decimal,
\* a float64 holding a small whole number in decimal without a point.
Sprint(v) ==
    IF v.t = "string" THEN v.s ELSE Itoa(v.n)

\* ---------------------------------------------------------------- values

StrVal(s) == [t |-> "string", n |-> 0, s |-> s]
IntVal(n) == [t |-> "int64", n |-> n, s |-> <<>>]
FloatVal(n) == [t |-> "float64", n |-> n, s |-> <<>>]

Field(name, value) == [name |-> name, value |-> value]

TMetric == <<"M","e","t","r","i","c">>
TValue == <<"V","a","l","u","e">>
THost == <<"h","o","s","t">>
TPut == <<"p","u","t"," ">>
TSpace == <<" ">>
TEquals == <<"=">>
TColon == <<":">>
TNewline == <<"\n">>
TDot == <<".">>

NoError == "nil"
ErrMetric == "Unable to find Field[Metric] in message"
ErrValue == "Unable to find Field[Value] field in message"

\* message.GetFieldValue(name): the value of the first field of that name.
GetFieldValue(p, name) ==
    LET I == {i \in 1..Len(p.Fields) : p.Fields[i].name = name}
    IN IF I = {} THEN [ok |-> FALSE, value |-> StrVal(<<>>)]
       ELSE [ok |-> TRUE, value |-> p.Fields[Min(I)].value]

\* ------------------------------------------------------------- formatter

\* MetricParts with the name cut at the first TagNamePrefix only.
MetricPartsFirst(metric) ==
    IF config.TagNamePrefix # <<>>
    THEN SplitN2(metric.s, config.TagNamePrefix)
    ELSE <<Sprint(metric)>>

\* metric_parts: the metric name cut at every TagNamePrefix, or the whole
\* name when no prefix is configured.
MetricParts(metric) ==
    IF config.TagNamePrefix # <<>>
    THEN Split(metric.s, config.TagNamePrefix)
    ELSE <<Sprint(metric)>>

\* EmbeddedPair without the check that key and value are not empty.
EmbeddedPairAnyTwo(tag) ==
    LET kv == SplitN2(tag, config.TagValuePrefix)
    IN IF Len(kv) = 2 THEN kv ELSE <<>>

\* The key and value of one embedded tag segment, <<>> when the segment is
\* not key, TagValuePrefix, value with both parts non-empty.
EmbeddedPair(tag) ==
    LET kv == SplitN2(tag, config.TagValuePrefix)
    IN IF Len(kv) = 2 /\ kv[1] # <<>> /\ kv[2] # <<>> THEN kv ELSE <<>>

\* The embedded tags the loop of line 123 writes, in order.
RECURSIVE EmbeddedPairs(_)
EmbeddedPairs(tags) ==
    IF tags = <<>> THEN <<>>
    ELSE LET kv == EmbeddedPair(Head(tags))
         IN (IF kv = <<>> THEN <<>> ELSE <<kv>>) \o EmbeddedPairs(Tail(tags))

\* What line 129 writes for one embedded tag.
WriteEmbedded(kv) == kv[1] \o TEquals \o kv[2]

\* The fields the loop of line 137 turns into tags, as <<key, value text>>.
RECURSIVE FieldPairs(_)
FieldPairs(fields) ==
    IF fields = <<>> THEN <<>>
    ELSE LET k == Head(fields).name
         IN (IF HasPrefix(k, config.TagNamePrefix) /\ k # TMetric /\ k # TValue
             THEN <<<<TrimLeft(k, config.TagNamePrefix), Sprint(Head(fields).value)>>>>
             ELSE <<>>) \o FieldPairs(Tail(fields))

\* The pairs of the fields when FieldsToTags is set, none otherwise.
FTagPairs(p) == IF config.FieldsToTags THEN FieldPairs(p.Fields) ELSE <<>>

\* What line 147 writes for one field tag.
WriteField(kv) == TSpace \o kv[1] \o TEquals \o kv[2]

RECURSIVE Concat(_)
Concat(ss) == IF ss = <<>> THEN <<>> ELSE Head(ss) \o Concat(Tail(ss))

\* The text the embedded-tag loop appends to buf.
EmbeddedText(metric) ==
    LET pairs == EmbeddedPairs(Tail(MetricParts(metric)))
    IN Concat([i \in 1..Len(pairs) |-> WriteEmbedded(pairs[i])])

\* ftags: the text the field loop accumulates.
FTags(p) ==
    LET pairs == FTagPairs(p)
    IN Concat([i \in 1..Len(pairs) |-> WriteField(pairs[i])])

\* seenHostTag after both loops: an embedded key that lower-cases to host,
\* or a trimmed field name that is exactly host.
SeenHostTag(metric, p) ==
    LET emb == EmbeddedPairs(Tail(MetricParts(metric)))
        fld == FTagPairs(p)
    IN \/ \E i \in 1..Len(emb) : ToLower(emb[i][1]) = THost
       \/ \E i \in 1..Len(fld) : fld[i][1] = THost

\* The fallback tag of lines 153-155.
HostTag(metric, p) ==
    IF ~SeenHostTag(metric, p) /\ config.AddHostnameIfMissing /\ hostname # <<>>
    THEN TSpace \o THost \o TEquals \o hostname
    ELSE <<>>

\* timestamp.Unix() of a time whose UnixNano() is ts.
UnixSeconds(ts) == ts \div NanosPerSecond

\* buf at line 157: the candidate line of the record.
Line(metric, value, ts, p) ==
    TPut \o Head(MetricParts(metric)) \o TSpace
         \o Itoa(UnixSeconds(ts)) \o TSpace
         \o Sprint(value)
         \o EmbeddedText(metric)
         \o FTags(p)
         \o HostTag(metric, p)
         \o TNewline

\* BufKey built from the bare metric name instead of the Metric field.
BufKeyBare(metric, p) == Head(MetricParts(metric)) \o TColon \o FTags(p)

\* bufkey: fmt.Sprintf("%s:%s", metric, ftags)
BufKey(metric, p) == Sprint(metric) \o TColon \o FTags(p)

\* timestamp.UnixNano(): the record's timestamp, or the wall clock now.
UnixNano(p, now) == IF config.TsFromMessage THEN p.Timestamp ELSE now

\* ---------------------------------------------------------------- dedupe

\* DedupeFlush*1e9
Window == config.DedupeFlush * NanosPerSecond

\* Repeated with the window's boundary counted as inside it.
RepeatedInclusive(e, value, ts) == e.val = value /\ ts - e.ts <= Window

\* Lines 167-168: the stored value again, inside the window.
Repeated(e, value, ts) == e.val = value /\ ts - e.ts < Window

\* Skipped with the stored timestamp left out of the new entry.
SkippedNoTs(e, buf, value) ==
    [data |-> buf, skipped |-> TRUE, val |-> value, ts |-> 0]

\* Lines 169-170: the entry a skipped record leaves.
Skipped(e, buf, value) ==
    [data |-> buf, skipped |-> TRUE, val |-> value, ts |-> e.ts]

\* Changed without the test of the skip mark and of the window.
ChangedAlways(e, value, ts) == e.val # value

\* Lines 176-178: a changed value after a skip or after the window.
Changed(e, value, ts) == (e.skipped \/ ts - e.ts >= Window) /\ e.val # value

\* Flushed with the candidate line written first.
FlushedReversed(e, buf) == buf \o e.data

\* Lines 180-183: the stored data followed by the candidate line.
Flushed(e, buf) == e.data \o buf

\* Tracked with the entry marked as skipped.
TrackedMarked(buf, value, ts) ==
    [data |-> buf, skipped |-> TRUE, val |-> value, ts |-> ts]

\* Line 188: the entry of the last data point; skipped is left false.
Tracked(buf, value, ts) ==
    [data |-> buf, skipped |-> FALSE, val |-> value, ts |-> ts]

\* Put into a map made anew, the other entries lost.
PutOnly(m, k, e) == [x \in {k} |-> e]

\* oe.dedupeBuffer[bufkey] = e
Put(m, k, e) == [x \in DOMAIN m \cup {k} |-> IF x = k THEN e ELSE m[x]]

\* ---------------------------------------------------------------- Encode

\* Failure without the check of the Value field.
FailureMetricOnly(metric, value) ==
    IF ~metric.ok THEN ErrMetric ELSE NoError

\* Lines 80-84 and 113-117: the error of a record lacking Metric or Value.
Failure(metric, value) ==
    IF ~metric.ok THEN ErrMetric
    ELSE IF ~value.ok THEN ErrValue
    ELSE NoError

\* Deduping with a window of zero taken as a window.
DedupingAlways == config.DedupeFlush >= 0

\* Line 161: the dedupe buffer is used only with a positive window.
Deduping == config.DedupeFlush > 0

Encode(p, now) ==
    LET metric == GetFieldValue(p, TMetric)
        value == GetFieldValue(p, TValue)
        ts == UnixNano(p, now)
        line == Line(metric.value, value.value, ts, p)
        bufkey == BufKey(metric.value, p)
        seen == bufkey \in DOMAIN dedupeBuffer
        e == dedupeBuffer[bufkey]
        buf == IF seen /\ Changed(e, value.value, ts) THEN Flushed(e, line) ELSE line
    IN /\ pack' = p
       /\ calls' = calls + 1
       /\ dedupeBefore' = dedupeBuffer
       /\ err' = Failure(metric, value)
       /\ UNCHANGED <<config, hostname>>
       /\ IF Failure(metric, value) = ErrMetric
          THEN /\ output' = <<>>
               /\ UNCHANGED <<dedupeBuffer, timestamp>>
          ELSE IF Failure(metric, value) = ErrValue
          THEN /\ output' = <<>>
               /\ timestamp' = ts
               /\ UNCHANGED dedupeBuffer
          ELSE /\ timestamp' = ts
               /\ IF Deduping
                  THEN IF seen /\ Repeated(e, value.value, ts)
                       THEN /\ dedupeBuffer' = Put(dedupeBuffer, bufkey, Skipped(e, line, value.value))
                            /\ output' = <<>>
                       ELSE /\ dedupeBuffer' = Put(dedupeBuffer, bufkey, Tracked(buf, value.value, ts))
                            /\ output' = buf
                  ELSE /\ output' = line
                       /\ UNCHANGED dedupeBuffer
       /\ lastEmitted' = IF output' # <<>>
                         THEN [k \in DOMAIN lastEmitted \cup {bufkey} |->
                                  IF k = bufkey THEN ts ELSE lastEmitted[k]]
                         ELSE lastEmitted

\* ---------------------------------------------------------------- inputs

TCpu == <<"c","p","u">>
TCpuHostWeb1 == <<"c","p","u","_","h","o","s","t",".","w","e","b","1">>
TCpuDotHostWeb1 == <<"c","p","u",".","h","o","s","t",".","w","e","b","1">>
TCpuHostweb1 == <<"c","p","u","_","h","o","s","t","w","e","b","1">>
TCpuUpperHost == <<"c","p","u","_","H","o","s","t",".","a">>
\* cpu_.x_host._a.b: a segment with no key, one with no value, one whole.
TCpuMixed == <<"c","p","u","_",".","x","_","h","o","s","t",".","_","a",".","b">>
TH1 == <<"h","1">>
TUnderscore == <<"_">>

\* Record timestamps and wall-clock readings, in nanoseconds: inside the
\* window, on its boundary and beyond it for a window of one second.
Timestamps == {0, NanosPerSecond \div 2, NanosPerSecond, 2 * NanosPerSecond}

MetricChoices == {<<>>, <<Field(TMetric, StrVal(TCpu))>>,
                  <<Field(TMetric, StrVal(TCpuHostWeb1))>>}

\* Two numbers, and a float64 that prints like the int64 1 and is not == it.
ValueChoices == {<<>>, <<Field(TValue, IntVal(1))>>, <<Field(TValue, IntVal(2))>>,
                 <<Field(TValue, FloatVal(1))>>}

\* The records of the dedupe specification: every complete record at every
\* timestamp, and the records lacking Metric or Value.
Packs ==
    {[Fields |-> m \o v, Timestamp |-> t] :
        m \in MetricChoices \ {<<>>}, v \in ValueChoices \ {<<>>}, t \in Timestamps}
    \cup {p \in {[Fields |-> m \o v, Timestamp |-> 0] :
                    m \in MetricChoices, v \in ValueChoices} :
            ~GetFieldValue(p, TMetric).ok \/ ~GetFieldValue(p, TValue).ok}

FmtMetricChoices == MetricChoices \cup
    {<<Field(TMetric, StrVal(TCpuDotHostWeb1))>>,
     <<Field(TMetric, StrVal(TCpuHostweb1))>>,
     <<Field(TMetric, StrVal(TCpuUpperHost))>>,
     <<Field(TMetric, StrVal(TCpuMixed))>>}

FmtValueChoices ==
    {<<>>, <<Field(TValue, IntVal(1))>>, <<Field(TValue, FloatVal(2))>>,
     <<Field(TValue, StrVal(<<"o","k">>))>>}

FmtExtraChoices ==
    {<<>>,
     <<Field(<<"_","h","o","s","t">>, StrVal(<<"w","2">>))>>,
     <<Field(<<"_","_","H","o","s","t">>, IntVal(7)), Field(<<"u","n","i","t">>, StrVal(<<"s">>))>>}

\* The record timestamp and the wall-clock reading of the formatter
\* specification: a second and a half, and two seconds.
FmtTimestamp == 3 * (NanosPerSecond \div 2)
FmtNow == 2 * NanosPerSecond

\* The records of the formatter specification.
FmtPacks ==
    {[Fields |-> m \o x \o v, Timestamp |-> t] :
        m \in FmtMetricChoices, v \in FmtValueChoices, x \in FmtExtraChoices,
        t \in {FmtTimestamp}}

\* Every configuration the formatter specification starts from.
Configs ==
    [TagNamePrefix : {<<>>, TUnderscore, TDot},
     TagValuePrefix : {<<>>, TDot},
     TsFromMessage : BOOLEAN,
     FieldsToTags : BOOLEAN,
     AddHostnameIfMissing : BOOLEAN,
     DedupeFlush : {0, 1}]

\* The configurations of the dedupe specification: with and without a
\* window, on record time and on the wall clock.
DedupeConfigs ==
    {c \in Configs : /\ c.TagNamePrefix = TUnderscore /\ c.TagValuePrefix = <<>>
                     /\ c.FieldsToTags /\ c.AddHostnameIfMissing}

Hostnames == {<<>>, TH1}

\* ------------------------------------------------------------------ Init

\* oe.config after Init: an unset TagValuePrefix defaults to "." when a
\* TagNamePrefix is set.
InitConfig(c) ==
    IF c.TagNamePrefix # <<>> /\ c.TagValuePrefix = <<>>
    THEN [c EXCEPT !.TagValuePrefix = TDot]
    ELSE c

Constructed(c, h) ==
    /\ config = InitConfig(c)
    /\ hostname = h
    /\ dedupeBuffer = <<>>
    /\ dedupeBefore = <<>>
    /\ pack = [Fields |-> <<>>, Timestamp |-> 0]
    /\ timestamp = 0
    /\ output = <<>>
    /\ err = NoError
    /\ calls = 0
    /\ lastEmitted = <<>>

Init == \E c \in DedupeConfigs : Constructed(c, TH1)

InitFmt == \E c \in Configs, h \in Hostnames : Constructed(c, h)

\* --------------------------------------------------------- specifications

\* The clock is read only when TsFromMessage is off, and the record's
\* timestamp only when it is on; the one not read is held at 0.
Reads(p, now) ==
    IF config.TsFromMessage THEN now = 0 ELSE p.Timestamp = 0

Next ==
    \E p \in Packs, now \in Timestamps :
        calls < MaxCalls /\ Reads(p, now) /\ Encode(p, now)

NextFmt ==
    \E p \in FmtPacks :
        calls < MaxFmtCalls /\ Encode(p, FmtNow)

Spec == Init /\ [][Next]_vars

SpecFmt == InitFmt /\ [][NextFmt]_vars

\* ---------------------------------------------------------------- claims

\* The latest call, as the claims speak of it.
Metric == GetFieldValue(pack, TMetric)
Value == GetFieldValue(pack, TValue)
Called == calls > 0
Formatted == Called /\ Metric.ok /\ Value.ok
Candidate == Line(Metric.value, Value.value, timestamp, pack)
Key == BufKey(Metric.value, pack)
HadState == Key \in DOMAIN dedupeBefore
Prior == dedupeBefore[Key]
Stored == dedupeBuffer[Key]
Elapsed == timestamp - Prior.ts
WindowNanos == config.DedupeFlush * 1000000000
SameValue == Value.value = Prior.val
InWindow == Elapsed < WindowNanos
Suppressing == HadState /\ SameValue /\ InWindow
Flushing == HadState /\ ~SameValue /\ (Prior.skipped \/ ~InWindow)

\* The number of newline-terminated lines of a text.
CountLines(text) == Cardinality({i \in 1..Len(text) : text[i] = "\n"})

\* C1: with a positive window, a record whose series has stored state, whose
\* value is the stored one and which lies strictly inside the window of the
\* stored timestamp returns no output and no error, and leaves the entry
\* {candidate line, skipped, value, the stored timestamp unchanged}.
C1_Suppress ==
    (Formatted /\ config.DedupeFlush > 0 /\ Suppressing) =>
        /\ output = <<>>
        /\ err = NoError
        /\ Stored = [data |-> Candidate, skipped |-> TRUE,
                     val |-> Value.value, ts |-> Prior.ts]

\* A record suppressed later than the stored timestamp, which is not zero.
C1_Witness ==
    /\ Formatted /\ config.DedupeFlush > 0 /\ Suppressing
    /\ Prior.ts > 0 /\ Elapsed > 0
    /\ output = <<>>

\* C2: with a positive window, a record whose value differs from the stored
\* one, when the stored entry is marked skipped or the window has passed,
\* returns the stored data followed by the record's candidate line; after a
\* run of suppressed records that is the line of the last suppressed record
\* followed by the new line, two lines in all.
C2_Flush ==
    (Formatted /\ config.DedupeFlush > 0 /\ Flushing) =>
        /\ output = Prior.data \o Candidate
        /\ Prior.skipped => CountLines(output) = 2

\* A changed value flushing an entry that was skipped inside the window.
C2_Witness ==
    /\ Formatted /\ config.DedupeFlush > 0 /\ Flushing
    /\ Prior.skipped /\ InWindow
    /\ Prior.data # Candidate
    /\ CountLines(output) = 2

\* C3: after every call that is not suppressed, the entry of the record's
\* series is {the single candidate line, not skipped, value, timestamp}.
C3_TrackCandidate ==
    (Formatted /\ config.DedupeFlush > 0 /\ ~Suppressing) =>
        Stored = [data |-> Candidate, skipped |-> FALSE,
                  val |-> Value.value, ts |-> timestamp]

\* C4: no output holds more than two lines, and one of two lines comes from
\* the flush branch only.
C4_AtMostTwoLines ==
    Called =>
        /\ CountLines(output) <= 2
        /\ CountLines(output) = 2 =>
               (Formatted /\ config.DedupeFlush > 0 /\ Flushing)

\* C5: with a positive window, the first record of a series is returned as
\* its candidate line and creates the entry {candidate line, not skipped,
\* timestamp, value}.
C5_FirstSighting ==
    (Formatted /\ config.DedupeFlush > 0 /\ ~HadState) =>
        /\ output = Candidate
        /\ err = NoError
        /\ Key \in DOMAIN dedupeBuffer
        /\ Stored = [data |-> Candidate, skipped |-> FALSE,
                     val |-> Value.value, ts |-> timestamp]

\* The first record of a second series, at a timestamp that is not zero.
C5_Witness ==
    /\ Formatted /\ config.DedupeFlush > 0 /\ ~HadState
    /\ dedupeBefore # <<>>
    /\ timestamp > 0
    /\ output = Candidate

\* C6: with a window of zero every formatted record is returned as its own
\* candidate line and the dedupe buffer stays empty.
C6_Bypass ==
    config.DedupeFlush = 0 =>
        /\ dedupeBuffer = <<>>
        /\ Formatted => (output = Candidate /\ err = NoError)

\* The same record returned a second time with a window of zero.
C6_Witness ==
    /\ config.DedupeFlush = 0 /\ Formatted /\ calls >= 3
    /\ output = Candidate
    /\ dedupeBuffer = <<>>

\* C7: with a positive window, a record of the stored value at or beyond the
\* window of the stored timestamp is returned as its candidate line alone,
\* whether the entry was marked skipped or not, and leaves a fresh entry
\* that is not skipped and holds the record's timestamp.
C7_Refresh ==
    (Formatted /\ config.DedupeFlush > 0 /\ HadState /\ SameValue /\ ~InWindow) =>
        /\ output = Candidate
        /\ err = NoError
        /\ Stored = [data |-> Candidate, skipped |-> FALSE,
                     val |-> Value.value, ts |-> timestamp]

\* The stored value again exactly one window after the stored timestamp of
\* an entry that was marked skipped.
C7_Witness ==
    /\ Formatted /\ config.DedupeFlush > 0 /\ HadState /\ SameValue
    /\ Elapsed = WindowNanos
    /\ Prior.skipped
    /\ output = Candidate

\* C8: a record lacking Metric, or lacking Value, returns the error of the
\* missing field and no output; a record holding both returns no error.
C8_MissingField ==
    Called =>
        /\ ~Metric.ok => (err = ErrMetric /\ output = <<>>)
        /\ (Metric.ok /\ ~Value.ok) => (err = ErrValue /\ output = <<>>)
        /\ (Metric.ok /\ Value.ok) => err = NoError

\* A record lacking only Value, refused after the buffer holds an entry.
C8_Witness ==
    /\ Called /\ Metric.ok /\ ~Value.ok
    /\ dedupeBuffer # <<>>
    /\ err = ErrValue /\ output = <<>>

Contains(text, part) == Index(text, part) # 0

TPutCpu == TPut \o TCpu \o TSpace
TWeb1 == <<"w","e","b","1">>
THostWeb1 == THost \o TEquals \o TWeb1

DotPrefixes == config.TagNamePrefix = TDot /\ config.TagValuePrefix = TDot
UnderscorePrefixes == config.TagNamePrefix = TUnderscore /\ config.TagValuePrefix = TDot

\* C9 as stated: with both prefixes ".", the metric cpu.host.web1 gives the
\* bare name cpu and the tag host=web1 in the output line.
C9_DotRoundTrip ==
    (Formatted /\ DotPrefixes /\ Metric.value.s = TCpuDotHostWeb1 /\ output # <<>>) =>
        /\ HasPrefix(output, TPutCpu)
        /\ Contains(output, THostWeb1)

\* C9 as amended: with both prefixes ".", the metric cpu.host.web1 gives the
\* bare name cpu and no tag, its segments host and web1 being dropped; with
\* the prefixes "_" and ".", the metric cpu_host.web1 gives the bare name
\* cpu and the text host=web1 in the output line.
C9_EmbeddedTag ==
    /\ (Formatted /\ DotPrefixes /\ Metric.value.s = TCpuDotHostWeb1 /\ output # <<>>) =>
           /\ HasPrefix(output, TPutCpu)
           /\ ~Contains(output, TWeb1)
    /\ (Formatted /\ UnderscorePrefixes /\ Metric.value.s = TCpuHostWeb1 /\ output # <<>>) =>
           /\ HasPrefix(output, TPutCpu)
           /\ Contains(output, THostWeb1)

\* The metric cpu.host.web1 encoded with both prefixes ".": the line holds
\* the fallback host tag only.
C9_Witness ==
    /\ Formatted /\ DotPrefixes /\ Metric.value.s = TCpuDotHostWeb1
    /\ HasPrefix(output, TPutCpu)
    /\ Contains(output, TSpace \o THost \o TEquals \o TH1)
    /\ ~Contains(output, TWeb1)

\* The tags of the latest record, as <<key, value>>: the embedded ones, the
\* field ones, and the fallback host tag when the formatter adds it.
WireTags ==
    EmbeddedPairs(Tail(MetricParts(Metric.value)))
        \o FTagPairs(pack)
        \o (IF HostTag(Metric.value, pack) # <<>> THEN <<<<THost, hostname>>>> ELSE <<>>)

\* put <metric_name> <unix_seconds> <value>, then each tag as a space and
\* key=value, then a newline.
WireLine ==
    TPut \o Head(MetricParts(Metric.value)) \o TSpace
         \o Itoa(timestamp \div 1000000000) \o TSpace
         \o Sprint(Value.value)
         \o Concat([i \in 1..Len(WireTags) |->
                        TSpace \o WireTags[i][1] \o TEquals \o WireTags[i][2]])
         \o TNewline

\* C10: every line Encode returns has the wire form, each tag written as a
\* space followed by key=value, embedded tags included.
C10_WireForm ==
    (Formatted /\ CountLines(output) = 1) => output = WireLine

\* The keys of the tags both sources produce for the latest record.
TagKeys ==
    LET emb == EmbeddedPairs(Tail(MetricParts(Metric.value)))
        fld == FTagPairs(pack)
    IN {emb[i][1] : i \in 1..Len(emb)} \cup {fld[i][1] : i \in 1..Len(fld)}

\* The line ends with the fallback tag: a space, host= and the hostname.
FallbackAppended ==
    /\ hostname # <<>>
    /\ Contains(output, TSpace \o THost \o TEquals \o hostname \o TNewline)

\* C11: the fallback tag host=<hostname> is appended exactly when
\* AddHostnameIfMissing is set, the hostname is not empty and neither source
\* produced a tag whose key is host in any letter case.
C11_FallbackHost ==
    (Formatted /\ CountLines(output) = 1) =>
        (FallbackAppended <=>
            /\ config.AddHostnameIfMissing
            /\ hostname # <<>>
            /\ \A k \in TagKeys : ToLower(k) # THost)

\* A segment that its first TagValuePrefix cuts into a key and a value,
\* neither of them empty.
WellFormed(seg) ==
    LET i == Index(seg, config.TagValuePrefix)
    IN i > 1 /\ i + Len(config.TagValuePrefix) <= Len(seg)

\* The metric name of the latest record without its malformed segments.
CleanMetric ==
    LET parts == Split(Metric.value.s, config.TagNamePrefix)
        kept == SelectSeq(Tail(parts), WellFormed)
    IN Head(parts) \o Concat([i \in 1..Len(kept) |-> config.TagNamePrefix \o kept[i]])

\* C12: a segment of the metric name that its first TagValuePrefix does not
\* cut into two non-empty parts adds nothing to the line and raises no
\* error: the line is the one of the name without that segment.
C12_MalformedDropped ==
    (Formatted /\ config.TagNamePrefix # <<>> /\ CountLines(output) = 1) =>
        /\ err = NoError
        /\ output = Line(StrVal(CleanMetric), Value.value, timestamp, pack)

\* cpu_.x_host._a.b with the prefixes "_" and ".": the segments .x and host.
\* are dropped and a=b is written.
C12_Witness ==
    /\ Formatted /\ UnderscorePrefixes /\ Metric.value.s = TCpuMixed
    /\ err = NoError
    /\ Contains(output, <<"a","=","b">>)
    /\ ~Contains(output, <<"x">>)
    /\ ~Contains(output, THost \o TEquals \o TNewline)
    /\ CleanMetric = <<"c","p","u","_","a",".","b">>

\* C13: with a positive window, a record whose value differs from the stored
\* one, when the entry is not marked skipped and the window has not passed,
\* is returned as its candidate line alone, and the entry becomes the
\* record's own: {candidate line, not skipped, value, timestamp}.
C13_Supersede ==
    (Formatted /\ config.DedupeFlush > 0 /\ HadState /\ ~SameValue
        /\ ~Prior.skipped /\ InWindow) =>
        /\ output = Candidate
        /\ CountLines(output) = 1
        /\ Stored = [data |-> Candidate, skipped |-> FALSE,
                     val |-> Value.value, ts |-> timestamp]

\* A changed value half a second after an emitted record of the series.
C13_Witness ==
    /\ Formatted /\ config.DedupeFlush > 0 /\ HadState /\ ~SameValue
    /\ ~Prior.skipped /\ InWindow /\ Elapsed > 0
    /\ Prior.data # Candidate
    /\ output = Candidate

OutOfOrder == timestamp < Prior.ts

\* C14: a record not earlier than the stored timestamp of its series never
\* moves that timestamp backwards; a record earlier than it is compared with
\* the entry as it stands: suppressed, it leaves the stored timestamp, and
\* not suppressed, it moves the stored timestamp back to its own.
C14_TimestampOrder ==
    (Formatted /\ config.DedupeFlush > 0 /\ HadState) =>
        /\ ~OutOfOrder => Stored.ts >= Prior.ts
        /\ (OutOfOrder /\ Suppressing) => Stored.ts = Prior.ts
        /\ (OutOfOrder /\ ~Suppressing) =>
               /\ Stored.ts = timestamp
               /\ Stored.ts < Prior.ts
               /\ output # <<>>

\* A record of a changed value earlier than the stored timestamp: it is
\* returned and the stored timestamp goes backwards.
C14_Witness ==
    /\ Formatted /\ config.DedupeFlush > 0 /\ HadState
    /\ OutOfOrder /\ ~SameValue
    /\ Stored.ts < Prior.ts
    /\ output # <<>>

\* The series key of the latest record: the text of its Metric field, a
\* colon, and the field tags as rendered.
SeriesKey == Metric.value.s \o TColon \o FTags(pack)

\* What the latest call returns, from the configuration, the record and the
\* entry its own series key had, and from nothing else.
OwnKeyOutput ==
    LET e == dedupeBefore[SeriesKey]
    IN IF SeriesKey \notin DOMAIN dedupeBefore THEN Candidate
       ELSE IF e.val = Value.value /\ timestamp - e.ts < WindowNanos THEN <<>>
       ELSE IF e.val # Value.value /\ (e.skipped \/ timestamp - e.ts >= WindowNanos)
            THEN e.data \o Candidate
       ELSE Candidate

\* C15: the buffer is keyed by Metric text, colon, field tags: a call writes
\* the entry of that key alone and leaves every other entry as it was, and
\* its output follows from the configuration, the record and the entry of
\* its own key.
C15_SeriesKeyed ==
    (Formatted /\ config.DedupeFlush > 0) =>
        /\ DOMAIN dedupeBuffer = DOMAIN dedupeBefore \cup {SeriesKey}
        /\ \A k \in DOMAIN dedupeBefore \ {SeriesKey} : dedupeBuffer[k] = dedupeBefore[k]
        /\ output = OwnKeyOutput

\* A record changing the entry of its series while the buffer holds the
\* entry of a second series.
C15_Witness ==
    /\ Formatted /\ config.DedupeFlush > 0
    /\ SeriesKey \in DOMAIN dedupeBefore
    /\ Cardinality(DOMAIN dedupeBefore) = 2
    /\ dedupeBuffer[SeriesKey] # dedupeBefore[SeriesKey]
    /\ \A k \in DOMAIN dedupeBefore \ {SeriesKey} : dedupeBuffer[k] = dedupeBefore[k]

HasSuffix(text, part) ==
    Len(text) >= Len(part) /\ SubSeq(text, Len(text) - Len(part) + 1, Len(text)) = part

\* C16: with a positive window a successful call creates the entry of its
\* series key or overwrites it with the record's line and value, whether the
\* record is suppressed or not; no other call adds a key and no call removes
\* one, so the keys of the buffer only grow.
C16_KeysOnlyGrow ==
    /\ DOMAIN dedupeBefore \subseteq DOMAIN dedupeBuffer
    /\ (Formatted /\ config.DedupeFlush > 0) =>
           /\ DOMAIN dedupeBuffer = DOMAIN dedupeBefore \cup {SeriesKey}
           /\ dedupeBuffer[SeriesKey].val = Value.value
           /\ HasSuffix(dedupeBuffer[SeriesKey].data, Candidate)
           /\ dedupeBuffer[SeriesKey].skipped <=> output = <<>>
    /\ ~(Formatted /\ config.DedupeFlush > 0) =>
           DOMAIN dedupeBuffer = DOMAIN dedupeBefore

\* A suppressed record overwriting the entry of its series with its own
\* line while the buffer keeps the entry of a second series.
C16_Witness ==
    /\ Formatted /\ config.DedupeFlush > 0
    /\ SeriesKey \in DOMAIN dedupeBefore
    /\ Cardinality(DOMAIN dedupeBuffer) = 2
    /\ output = <<>>
    /\ dedupeBuffer[SeriesKey].data = Candidate
    /\ dedupeBefore[SeriesKey].data # Candidate

\* C17: a call refused for a missing Metric or a missing Value returns no
\* output and leaves the whole dedupe buffer as it found it, so that later
\* calls meet the entries they would have met without it.
C17_FailureLeavesBuffer ==
    (Called /\ (~Metric.ok \/ ~Value.ok)) =>
        /\ err # NoError
        /\ output = <<>>
        /\ dedupeBuffer = dedupeBefore

\* A record lacking Metric refused while the buffer holds an entry that is
\* marked skipped.
C17_Witness ==
    /\ Called /\ ~Metric.ok
    /\ err = ErrMetric
    /\ \E k \in DOMAIN dedupeBefore : dedupeBefore[k].skipped
    /\ dedupeBuffer = dedupeBefore

\* C18: every entry of the buffer, marked skipped or not, holds the
\* timestamp of the latest record of its series that was returned as output;
\* so a suppressed record lies less than one window after that record, and
\* a record of the stored value at or beyond one window after it is returned
\* and becomes the latest one.
C18_LastEmitted ==
    /\ \A k \in DOMAIN dedupeBuffer :
           k \in DOMAIN lastEmitted /\ dedupeBuffer[k].ts = lastEmitted[k]
    /\ (Formatted /\ config.DedupeFlush > 0 /\ output = <<>>) =>
           /\ dedupeBuffer[SeriesKey].skipped
           /\ timestamp - lastEmitted[SeriesKey] < WindowNanos
    /\ (Formatted /\ config.DedupeFlush > 0 /\ HadState /\ SameValue
            /\ timestamp - Prior.ts >= WindowNanos) =>
           /\ output # <<>>
           /\ lastEmitted[SeriesKey] = timestamp

\* The second record in a row suppressed after a record returned at half a
\* second or later: the entry still holds that record's timestamp.
C18_Witness ==
    /\ Formatted /\ config.DedupeFlush > 0 /\ HadState
    /\ output = <<>>
    /\ Prior.skipped /\ Stored.skipped
    /\ lastEmitted[SeriesKey] > 0
    /\ timestamp > lastEmitted[SeriesKey]
    /\ Stored.ts = lastEmitted[SeriesKey]

====
